---- MODULE Spec2Model ----
(***************************************************************************)
(* Multi-tenant configuration resolver of tomsebastiantom/auth.            *)
(*                                                                         *)
(*   driver/config/tenant_manager.go  (src/configs/default/kratos.yaml,    *)
(*                                     lines 129-452)  TenantManager       *)
(*   x/tenant_middleware.go           (src/x/tenant_middleware.go)         *)
(*                                                                         *)
(* Spec    : the TenantManager under concurrent callers, file changes,     *)
(*           watcher callbacks and detached background reloads.            *)
(* SpecReq : the request pipeline, TenantMiddleware -> context ->          *)
(*           TenantAwareConfig.GetProvider, over bounded header values.    *)
(*                                                                         *)
(* setupTenantWatcher is modelled twice over: as the call loadTenantConfig *)
(* makes while holding tm.mu, and as an operation run on its own, so that  *)
(* the watcher callback and the reloads are examined as well.              *)
(***************************************************************************)
EXTENDS Integers, Sequences, FiniteSets, TLC

(* ---------------------------- bounds ---------------------------------- *)
\* number of content changes a tenant's file goes through
MaxVer == 2
\* undelivered watcher notifications per tenant
MaxPending == 1
\* watcher providers created per tenant (none is ever closed)
MaxLive == 2
\* length of a header value
MaxHdrLen == 4

(* --------------------------- universe --------------------------------- *)
DefaultTenantID == "default"
\* a tenant whose directory is never present under the config directory
Absent == {"nonexistent"}
NonDefault == {"tenant1"} \cup Absent
Tenants == {DefaultTenantID} \cup NonDefault

\* request goroutines and the goroutines spawned by the watcher callback
Callers == {"p1", "p2"}
Reloaders == {"r1", "r2"}
Procs == Callers \cup Reloaders

None == [kind |-> "none"]
\* tm.baseConfig.GetProvider(ctx)
Base == [kind |-> "base"]
\* a *configx.Provider made by createTenantProvider: the tenant and the
\* content version it was loaded from; old: an InvalidateTenantConfig of the
\* tenant has returned since it was loaded
Snapshot(t, v) == [kind |-> "tenant", tenant |-> t, ver |-> v, old |-> FALSE]

VARIABLES
  tenantConfigs,  \* tm.tenantConfigs: map tenant -> snapshot
  watchers,       \* key set of tm.watchers
  live,           \* live[t]: watcher providers created for t and still watching
  pending,        \* pending[t]: versions whose change notification is undelivered
  file,           \* file[t] = [st, ver]: the backing file {dir}/{t}/kratos.yaml
  writer,         \* tm.mu: the goroutine holding Lock, or None
  readers,        \* tm.mu: the goroutines holding RLock
  pc, op, arg,    \* per goroutine: position, operation, tenant argument
  ret,            \* per caller: the value its last call returned
  held,           \* per goroutine: the local variable provider
  crashed,        \* the runtime aborted on a concurrent map access
  shut,           \* Shutdown has returned
  handled,        \* handled[t]: newest change whose notification was handled
  mark,           \* mark[p]: "loadfail", p's last call ended in a failed load;
                  \* "swfail", p's last call was a setupTenantWatcher that
                  \* failed; what p's running or last GetTenantConfig(t)
                  \* directly followed: "inval", p's InvalidateTenantConfig(t),
                  \* "failed", p's GetTenantConfig(t) whose load failed,
                  \* "rearm", p's failed setupTenantWatcher(t); else "none"
  hdr,            \* the request's X-Tenant-Id header value, a sequence of characters
  ctx,            \* the request context: key -> value
  rstage,         \* how far the request has come ("off": no request)
  passed,         \* the tenantID GetProvider passed to GetTenantConfig
  got             \* the tenantID GetTenantID returned

mvars == <<tenantConfigs, watchers, live, pending, file, writer, readers,
           pc, op, arg, ret, held, crashed, shut, handled, mark>>
rvars == <<hdr, ctx, rstage, passed, got>>
vars == <<mvars, rvars>>

(* --------------------------- helpers ---------------------------------- *)
NoProc == "none"
NoTenant == "-"

\* Go map operations on a map held as a function over its key set
MapHas(m, k) == k \in DOMAIN m
MapPut(m, k, v) == [x \in (DOMAIN m) \cup {k} |-> IF x = k THEN v ELSE m[x]]
MapDelete(m, k) == [x \in (DOMAIN m) \ {k} |-> m[x]]
EmptyMap == [x \in {} |-> None]

\* sync.RWMutex: Lock needs no holder at all, RLock needs no writer
LockFree == writer = NoProc /\ readers = {}
RLockFree == writer = NoProc

\* os.Stat(tenantConfigPath) does not report IsNotExist
FileExists(t) == file[t].st # "missing"
\* configx.New on the tenant's file succeeds
CanLoad(t) == file[t].st = "ok"

\* the cleanup closure stored in tm.watchers: it only logs, the watcher
\* provider it refers to keeps watching
Cleanup(l, t) == l

\* positions at which a goroutine is reading or writing tm.tenantConfigs
MapAccessPcs == {"gt_check", "ld_check", "ld_load", "iv_body", "st_body", "pl_store"}
\* the callback's unlocked delete overlaps another goroutine's map access
Racing == \E q \in Procs : pc[q] \in MapAccessPcs

(* ----------------------------- Init ----------------------------------- *)
ReqIdle ==
  /\ hdr = << >>
  /\ ctx = EmptyMap
  /\ rstage = "off"
  /\ passed = << >>
  /\ got = << >>

\* NewTenantManager: both maps empty, mutex unlocked. On disk the default
\* tenant's file exists (the base configuration was loaded from it); another
\* tenant's file exists or not, as the deployment has it
InitManager ==
  /\ tenantConfigs = EmptyMap
  /\ watchers = {}
  /\ live = [t \in Tenants |-> 0]
  /\ pending = [t \in Tenants |-> << >>]
  /\ file \in {f \in [Tenants -> {[st |-> "missing", ver |-> 0], [st |-> "ok", ver |-> 0]}] :
                 /\ f[DefaultTenantID].st = "ok"
                 /\ \A t \in Absent : f[t].st = "missing"}
  /\ writer = NoProc
  /\ readers = {}
  /\ pc = [p \in Procs |-> IF p \in Callers THEN "idle" ELSE "free"]
  /\ op = [p \in Callers |-> "none"]
  /\ arg = [p \in Procs |-> NoTenant]
  /\ ret = [p \in Callers |-> None]
  /\ held = [p \in Procs |-> None]
  /\ crashed = FALSE
  /\ shut = FALSE
  /\ handled = [t \in Tenants |-> 0]
  /\ mark = [p \in Callers |-> "none"]

Init == InitManager /\ ReqIdle

(* --------------------------- frames ----------------------------------- *)
envVars == <<live, pending, file>>
lockVars == <<writer, readers>>
mapVars == <<tenantConfigs, watchers>>
ghostVars == <<shut, handled, mark>>

\* caller p enters operation o on tenant t and stands at position l with
\* return value v (None while the call runs)
Begin(p, o, t, l, v) ==
  /\ pc' = [pc EXCEPT ![p] = l]
  /\ op' = [op EXCEPT ![p] = o]
  /\ arg' = [arg EXCEPT ![p] = t]
  /\ ret' = [ret EXCEPT ![p] = v]
  /\ mark' = [mark EXCEPT ![p] =
                IF o = "GetTenantConfig" /\ arg[p] = t /\ t # DefaultTenantID
                  THEN IF op[p] = "InvalidateTenantConfig" THEN "inval"
                       ELSE IF mark[p] = "loadfail" THEN "failed"
                       ELSE IF mark[p] = "swfail" THEN "rearm"
                       ELSE "none"
                  ELSE "none"]

\* caller p returns v
Return(p, v) ==
  /\ pc' = [pc EXCEPT ![p] = "idle"]
  /\ ret' = [ret EXCEPT ![p] = v]
  /\ UNCHANGED <<op, arg>>

Goto(p, l) ==
  /\ pc' = [pc EXCEPT ![p] = l]
  /\ UNCHANGED <<op, arg, ret>>

(* ------------------------ GetTenantConfig ----------------------------- *)
\* variant of GetTenantConfig without the shortcut for the default tenant:
\* every identifier goes through the cache lookup
GetTenantConfigNoShortcut(p, t) ==
  /\ ~crashed /\ pc[p] = "idle"
  /\ RLockFree
  /\ Begin(p, "GetTenantConfig", t, "gt_check", None)
  /\ readers' = readers \cup {p}
  /\ UNCHANGED <<mapVars, envVars, writer, held, crashed, shut, handled, rvars>>

\* GetTenantConfig up to the lookup: the default tenant is answered from the
\* base configuration without touching the mutex or the map; any other
\* tenant takes tm.mu.RLock()
GetTenantConfig(p, t) ==
  /\ ~crashed /\ pc[p] = "idle"
  /\ IF t = DefaultTenantID
       THEN /\ Begin(p, "GetTenantConfig", t, "idle", Base)
            /\ readers' = readers
       ELSE /\ RLockFree
            /\ Begin(p, "GetTenantConfig", t, "gt_check", None)
            /\ readers' = readers \cup {p}
  /\ UNCHANGED <<mapVars, envVars, writer, held, crashed, shut, handled, rvars>>

\* the cache lookup under the read lock, then RUnlock
GtCheck(p) ==
  /\ ~crashed /\ pc[p] = "gt_check"
  /\ readers' = readers \ {p}
  /\ IF MapHas(tenantConfigs, arg[p])
       THEN Return(p, tenantConfigs[arg[p]])
       ELSE Goto(p, "ld_lock")
  /\ UNCHANGED <<mapVars, envVars, writer, held, crashed, ghostVars, rvars>>

\* loadTenantConfig: tm.mu.Lock(), released by the deferred Unlock on return
LdLock(p) ==
  /\ ~crashed /\ pc[p] = "ld_lock" /\ LockFree
  /\ writer' = p
  /\ Goto(p, "ld_check")
  /\ UNCHANGED <<mapVars, envVars, readers, held, crashed, ghostVars, rvars>>

\* variant of LdCheck that caches the fallback: when the file does not exist
\* the base provider is stored under the tenant's identifier
LdCheckCachesFallback(p) ==
  /\ ~crashed /\ pc[p] = "ld_check"
  /\ IF MapHas(tenantConfigs, arg[p])
       THEN /\ Return(p, tenantConfigs[arg[p]]) /\ writer' = NoProc
            /\ tenantConfigs' = tenantConfigs
       ELSE IF ~FileExists(arg[p])
              THEN /\ Return(p, Base) /\ writer' = NoProc
                   /\ tenantConfigs' = MapPut(tenantConfigs, arg[p], Base)
              ELSE /\ Goto(p, "ld_load") /\ writer' = writer
                   /\ tenantConfigs' = tenantConfigs
  /\ UNCHANGED <<watchers, envVars, readers, held, crashed, ghostVars, rvars>>

\* loadTenantConfig: the second lookup, then os.Stat of the tenant's file
LdCheck(p) ==
  /\ ~crashed /\ pc[p] = "ld_check"
  /\ IF MapHas(tenantConfigs, arg[p])
       THEN Return(p, tenantConfigs[arg[p]]) /\ writer' = NoProc
       ELSE IF ~FileExists(arg[p])
              THEN Return(p, Base) /\ writer' = NoProc
              ELSE Goto(p, "ld_load") /\ writer' = writer
  /\ UNCHANGED <<mapVars, envVars, readers, held, crashed, ghostVars, rvars>>

\* loadTenantConfig: createTenantProvider; on failure return the base
\* provider, on success store the provider and call setupTenantWatcher while
\* still holding tm.mu
LdLoad(p) ==
  /\ ~crashed /\ pc[p] = "ld_load"
  /\ IF CanLoad(arg[p])
       THEN /\ held' = [held EXCEPT ![p] =
                          Snapshot(arg[p], file[arg[p]].ver)]
            /\ tenantConfigs' = MapPut(tenantConfigs, arg[p], held'[p])
            /\ Goto(p, "sw_lock")
            /\ writer' = writer
            /\ mark' = mark
       ELSE /\ tenantConfigs' = tenantConfigs
            /\ held' = held
            /\ Return(p, Base)
            /\ writer' = NoProc
            /\ mark' = [mark EXCEPT ![p] = "loadfail"]
  /\ UNCHANGED <<watchers, envVars, readers, crashed, shut, handled, rvars>>

(* ----------------------- setupTenantWatcher --------------------------- *)
\* setupTenantWatcher called on its own for a tenant, the mutex not held by
\* the caller (the call inside loadTenantConfig arrives at "sw_lock" too, but
\* with tm.mu already locked by the calling goroutine)
SetupTenantWatcher(p, t) ==
  /\ ~crashed /\ pc[p] = "idle" /\ t \in NonDefault \ Absent
  /\ Begin(p, "setupTenantWatcher", t, "sw_lock", None)
  /\ UNCHANGED <<mapVars, envVars, lockVars, held, crashed, shut, handled, rvars>>

\* setupTenantWatcher: tm.mu.Lock(). sync.RWMutex is not reentrant: a
\* goroutine that already holds the lock waits here like any other
SwLock(p) ==
  /\ ~crashed /\ pc[p] = "sw_lock" /\ LockFree
  /\ writer' = p
  /\ Goto(p, "sw_body")
  /\ UNCHANGED <<mapVars, envVars, readers, held, crashed, ghostVars, rvars>>

\* setupTenantWatcher, body: run the old cleanup, create the watching
\* provider (configx.New with AttachWatcher), register its cleanup; Unlock.
\* ok is whether configx.New succeeded
SwBody(p, ok) ==
  /\ ~crashed /\ pc[p] = "sw_body"
  /\ ok => CanLoad(arg[p])
  /\ LET t == arg[p]
         l1 == IF t \in watchers THEN Cleanup(live, t) ELSE live
     IN IF ok
          THEN /\ l1[t] < MaxLive
               /\ live' = [l1 EXCEPT ![t] = @ + 1]
               /\ watchers' = watchers \cup {t}
          ELSE /\ live' = l1
               /\ watchers' = watchers
  /\ writer' = NoProc
  /\ IF op[p] = "GetTenantConfig"
       THEN Return(p, held[p])
       ELSE Return(p, None)
  /\ held' = [held EXCEPT ![p] = None]
  /\ mark' = IF ok THEN mark ELSE [mark EXCEPT ![p] = "swfail"]
  /\ UNCHANGED <<tenantConfigs, pending, file, readers, crashed, shut, handled,
                 rvars>>

(* --------------------- InvalidateTenantConfig ------------------------- *)
\* InvalidateTenantConfig: tm.mu.Lock()
InvalidateTenantConfig(p, t) ==
  /\ ~crashed /\ pc[p] = "idle" /\ LockFree
  /\ writer' = p
  /\ Begin(p, "InvalidateTenantConfig", t, "iv_body", None)
  /\ UNCHANGED <<mapVars, envVars, readers, held, crashed, shut, handled, rvars>>

\* a provider as seen once an InvalidateTenantConfig(t) has returned
Aged(v, t) == IF v.kind = "tenant" /\ v.tenant = t THEN [v EXCEPT !.old = TRUE] ELSE v

\* delete the entry; run and delete the tenant's cleanup if one is
\* registered; Unlock
IvBody(p) ==
  /\ ~crashed /\ pc[p] = "iv_body"
  /\ LET t == arg[p] IN
       /\ tenantConfigs' = MapDelete(tenantConfigs, t)
       /\ live' = IF t \in watchers THEN Cleanup(live, t) ELSE live
       /\ watchers' = watchers \ {t}
       /\ held' = [q \in Procs |-> Aged(held[q], t)]
  /\ writer' = NoProc
  /\ Return(p, None)
  /\ UNCHANGED <<pending, file, readers, crashed, shut, handled, mark, rvars>>

(* ----------------------------- Shutdown ------------------------------- *)
\* Shutdown: tm.mu.Lock()
Shutdown(p) ==
  /\ ~crashed /\ pc[p] = "idle" /\ LockFree
  /\ writer' = p
  /\ Begin(p, "Shutdown", NoTenant, "sd_body", None)
  /\ UNCHANGED <<mapVars, envVars, readers, held, crashed, shut, handled, rvars>>

RECURSIVE CleanupAll(_, _)
\* for tenantID, cleanup := range tm.watchers { cleanup() }
CleanupAll(l, ts) ==
  IF ts = {} THEN l
  ELSE LET t == CHOOSE x \in ts : TRUE IN CleanupAll(Cleanup(l, t), ts \ {t})

\* run every cleanup, replace tm.watchers by an empty map, Unlock;
\* tm.tenantConfigs is not touched
SdBody(p) ==
  /\ ~crashed /\ pc[p] = "sd_body"
  /\ live' = CleanupAll(live, watchers)
  /\ watchers' = {}
  /\ shut' = TRUE
  /\ writer' = NoProc
  /\ Return(p, None)
  /\ UNCHANGED <<tenantConfigs, pending, file, readers, held, crashed,
                 handled, mark, rvars>>

(* ----------------------- GetTenantConfigStats ------------------------- *)
\* GetTenantConfigStats: tm.mu.RLock()
GetTenantConfigStats(p) ==
  /\ ~crashed /\ pc[p] = "idle" /\ RLockFree
  /\ readers' = readers \cup {p}
  /\ Begin(p, "GetTenantConfigStats", NoTenant, "st_body", None)
  /\ UNCHANGED <<mapVars, envVars, writer, held, crashed, shut, handled, rvars>>

\* getLoadedTenantsUnsafe: the keys of tm.tenantConfigs
getLoadedTenantsUnsafe == DOMAIN tenantConfigs

\* build the statistics map, RUnlock
StBody(p) ==
  /\ ~crashed /\ pc[p] = "st_body"
  /\ readers' = readers \ {p}
  /\ Return(p, [kind |-> "stats",
                loaded_tenants_count |-> Cardinality(DOMAIN tenantConfigs),
                active_watchers_count |-> Cardinality(watchers),
                loaded_tenant_ids |-> getLoadedTenantsUnsafe])
  /\ UNCHANGED <<mapVars, envVars, writer, held, crashed, ghostVars, rvars>>

(* ------------------- the file and its watchers ------------------------ *)
RECURSIVE Copies(_, _)
Copies(v, n) == IF n = 0 THEN << >> ELSE <<v>> \o Copies(v, n - 1)

\* the tenant's file is written, replaced, broken or removed on disk; every
\* live watcher of it is sent one notification
FileChange(t, st) ==
  /\ ~crashed /\ t \notin Absent
  /\ file[t].ver < MaxVer
  /\ ~(st = "missing" /\ file[t].st = "missing")
  /\ Len(pending[t]) + live[t] <= MaxPending
  /\ file' = [file EXCEPT ![t] = [st |-> st, ver |-> file[t].ver + 1]]
  /\ pending' = [pending EXCEPT ![t] = @ \o Copies(file[t].ver + 1, live[t])]
  /\ UNCHANGED <<mapVars, live, lockVars, pc, op, arg, ret, held, crashed,
                 ghostVars, rvars>>

\* tm.tenantConfigs without t: delete(tm.tenantConfigs, tenantID), no lock taken
invalidateTenantConfigUnsafe(m, t) == MapDelete(m, t)

Max(a, b) == IF a >= b THEN a ELSE b

\* the goroutine a `go` statement starts is a new one: among the goroutines
\* not running, which one it is makes no difference and the first is taken
Rank(r) == IF r = "r1" THEN 1 ELSE 2

\* variant of the callback that waits for tm.mu before it invalidates and
\* starts the reload
WatcherCallbackLocked(t, r, err, clean) ==
  /\ ~crashed
  /\ pending[t] # << >>
  /\ pending' = [pending EXCEPT ![t] = Tail(@)]
  /\ IF err
       THEN /\ clean /\ r = CHOOSE x \in Reloaders : TRUE
            /\ UNCHANGED <<tenantConfigs, pc, arg, crashed, handled>>
       ELSE IF ~clean
         THEN /\ Racing /\ r = CHOOSE x \in Reloaders : TRUE
              /\ crashed' = TRUE
              /\ UNCHANGED <<tenantConfigs, pc, arg, handled>>
         ELSE /\ pc[r] = "free" /\ LockFree
              /\ \A x \in Reloaders : pc[x] = "free" => Rank(r) <= Rank(x)
              /\ tenantConfigs' = invalidateTenantConfigUnsafe(tenantConfigs, t)
              /\ handled' = [handled EXCEPT ![t] = Max(@, Head(pending[t]))]
              /\ pc' = [pc EXCEPT ![r] = "pl_load"]
              /\ arg' = [arg EXCEPT ![r] = t]
              /\ crashed' = crashed
  /\ UNCHANGED <<watchers, live, file, lockVars, op, ret, held, shut, mark,
                 rvars>>

\* the callback given to configx.AttachWatcher, run on the watcher's
\* goroutine; r is the goroutine it starts. err: the watcher reported an
\* error. clean: the unlocked delete did not collide with another
\* goroutine's access to the map
WatcherCallback(t, r, err, clean) ==
  /\ ~crashed
  /\ pending[t] # << >>
  /\ pending' = [pending EXCEPT ![t] = Tail(@)]
  /\ IF err
       THEN /\ clean /\ r = CHOOSE x \in Reloaders : TRUE
            /\ UNCHANGED <<tenantConfigs, pc, arg, crashed, handled>>
       ELSE IF ~clean
         THEN /\ Racing /\ r = CHOOSE x \in Reloaders : TRUE
              /\ crashed' = TRUE
              /\ UNCHANGED <<tenantConfigs, pc, arg, handled>>
         ELSE /\ pc[r] = "free"
              /\ \A x \in Reloaders : pc[x] = "free" => Rank(r) <= Rank(x)
              /\ tenantConfigs' = invalidateTenantConfigUnsafe(tenantConfigs, t)
              /\ handled' = [handled EXCEPT ![t] = Max(@, Head(pending[t]))]
              /\ pc' = [pc EXCEPT ![r] = "pl_load"]
              /\ arg' = [arg EXCEPT ![r] = t]
              /\ crashed' = crashed
  /\ UNCHANGED <<watchers, live, file, lockVars, op, ret, held, shut, mark,
                 rvars>>

(* ----------------------- preloadTenantConfig -------------------------- *)
\* createTenantProvider, outside the mutex; on failure the goroutine ends
PlLoad(r) ==
  /\ ~crashed /\ pc[r] = "pl_load"
  /\ IF CanLoad(arg[r])
       THEN /\ held' = [held EXCEPT ![r] =
                          Snapshot(arg[r], file[arg[r]].ver)]
            /\ pc' = [pc EXCEPT ![r] = "pl_lock"]
            /\ arg' = arg
       ELSE /\ held' = held
            /\ pc' = [pc EXCEPT ![r] = "free"]
            /\ arg' = [arg EXCEPT ![r] = NoTenant]
  /\ UNCHANGED <<mapVars, envVars, lockVars, op, ret, crashed, ghostVars, rvars>>

\* preloadTenantConfig: tm.mu.Lock()
PlLock(r) ==
  /\ ~crashed /\ pc[r] = "pl_lock" /\ LockFree
  /\ writer' = r
  /\ pc' = [pc EXCEPT ![r] = "pl_store"]
  /\ UNCHANGED <<op, arg, ret>>
  /\ UNCHANGED <<mapVars, envVars, readers, held, crashed, ghostVars, rvars>>

\* tm.tenantConfigs[tenantID] = provider; tm.mu.Unlock(); the goroutine ends
PlStore(r) ==
  /\ ~crashed /\ pc[r] = "pl_store"
  /\ tenantConfigs' = MapPut(tenantConfigs, arg[r], held[r])
  /\ writer' = NoProc
  /\ held' = [held EXCEPT ![r] = None]
  /\ pc' = [pc EXCEPT ![r] = "free"]
  /\ arg' = [arg EXCEPT ![r] = NoTenant]
  /\ UNCHANGED <<watchers, envVars, readers, op, ret, crashed, ghostVars, rvars>>

(* ------------------------------ Next ---------------------------------- *)
Next ==
  \/ \E p \in Callers, t \in Tenants : GetTenantConfig(p, t)
  \/ \E p \in Callers : GtCheck(p)
  \/ \E p \in Callers : LdLock(p)
  \/ \E p \in Callers : LdCheck(p)
  \/ \E p \in Callers : LdLoad(p)
  \/ \E p \in Callers, t \in NonDefault : SetupTenantWatcher(p, t)
  \/ \E p \in Callers : SwLock(p)
  \/ \E p \in Callers, ok \in BOOLEAN : SwBody(p, ok)
  \/ \E p \in Callers, t \in Tenants : InvalidateTenantConfig(p, t)
  \/ \E p \in Callers : IvBody(p)
  \/ \E p \in Callers : Shutdown(p)
  \/ \E p \in Callers : SdBody(p)
  \/ \E p \in Callers : GetTenantConfigStats(p)
  \/ \E p \in Callers : StBody(p)
  \/ \E t \in NonDefault, st \in {"ok", "bad", "missing"} : FileChange(t, st)
  \/ \E t \in NonDefault, r \in Reloaders, err \in BOOLEAN, clean \in BOOLEAN :
        WatcherCallback(t, r, err, clean)
  \/ \E r \in Reloaders : PlLoad(r)
  \/ \E r \in Reloaders : PlLock(r)
  \/ \E r \in Reloaders : PlStore(r)

Spec == Init /\ [][Next]_vars

\* the next step of goroutine p inside the call it is running
Step(p) ==
  \/ GtCheck(p) \/ LdLock(p) \/ LdCheck(p) \/ LdLoad(p)
  \/ SwLock(p) \/ (\E ok \in BOOLEAN : SwBody(p, ok))
  \/ IvBody(p) \/ SdBody(p) \/ StBody(p)
  \/ PlLoad(p) \/ PlLock(p) \/ PlStore(p)

(* ======================= the request pipeline ========================= *)
Chars == {".", "/", "\\", " ", "a"}
Whitespace == {" "}

\* header values of at most MaxHdrLen characters
Headers == UNION {[1..n -> Chars] : n \in 0..MaxHdrLen}

RECURSIVE Str(_)
\* a sequence of characters as a string
Str(s) == IF s = << >> THEN "" ELSE s[1] \o Str(Tail(s))

DefaultTenantChars == <<"d", "e", "f", "a", "u", "l", "t">>

RECURSIVE TrimLeft(_)
TrimLeft(s) == IF s # << >> /\ Head(s) \in Whitespace THEN TrimLeft(Tail(s)) ELSE s
RECURSIVE TrimRight(_)
TrimRight(s) ==
  IF s # << >> /\ s[Len(s)] \in Whitespace THEN TrimRight(SubSeq(s, 1, Len(s) - 1)) ELSE s
\* strings.TrimSpace
TrimSpace(s) == TrimRight(TrimLeft(s))

RECURSIVE RemoveDotDot(_)
\* strings.ReplaceAll(s, "..", ""): one pass from the left over
\* non-overlapping occurrences
RemoveDotDot(s) ==
  IF Len(s) < 2 THEN s
  ELSE IF s[1] = "." /\ s[2] = "." THEN RemoveDotDot(SubSeq(s, 3, Len(s)))
  ELSE <<s[1]>> \o RemoveDotDot(Tail(s))

\* strings.ReplaceAll(s, c, "") for a one-character c
RemoveChar(s, c) == SelectSeq(s, LAMBDA x : x # c)

\* variant of extractTenantID that returns the sanitized string without
\* testing it for emptiness
extractTenantIDNoFallback(h) ==
  LET t0 == TrimSpace(h) IN
    IF t0 = << >> THEN DefaultTenantChars
    ELSE RemoveChar(RemoveChar(RemoveDotDot(t0), "/"), "\\")

\* extractTenantID on the header value h
extractTenantID(h) ==
  LET t0 == TrimSpace(h) IN
    IF t0 = << >> THEN DefaultTenantChars
    ELSE LET t1 == RemoveDotDot(t0)
             t2 == RemoveChar(t1, "/")
             t3 == RemoveChar(t2, "\\")
         IN IF t3 = << >> THEN DefaultTenantChars ELSE t3

(* ------------------------ getTenantConfigPath ------------------------- *)
\* tm.configDirectory, an absolute path as the sequence of its elements
configDirectory == <<"etc", "kratos", "tenants">>

RECURSIVE SplitPath(_, _)
\* the elements of the character sequence s between separators, cur being
\* the element under way
SplitPath(s, cur) ==
  IF s = << >> THEN <<Str(cur)>>
  ELSE IF Head(s) = "/" THEN <<Str(cur)>> \o SplitPath(Tail(s), << >>)
  ELSE SplitPath(Tail(s), Append(cur, Head(s)))

RECURSIVE CleanPath(_, _)
\* filepath.Clean on a rooted path: empty and "." elements are dropped, ".."
\* removes the element before it and is dropped at the root
CleanPath(done, rest) ==
  IF rest = << >> THEN done
  ELSE LET x == Head(rest) IN
    IF x = "" \/ x = "." THEN CleanPath(done, Tail(rest))
    ELSE IF x = ".."
      THEN CleanPath(IF done = << >> THEN done
                     ELSE SubSeq(done, 1, Len(done) - 1), Tail(rest))
    ELSE CleanPath(Append(done, x), Tail(rest))

\* filepath.Join(tm.configDirectory, tenantID, "kratos.yaml")
getTenantConfigPath(tenantID) ==
  CleanPath(<< >>, configDirectory \o SplitPath(tenantID, << >>) \o <<"kratos.yaml">>)

\* x.TenantIDKey: the constant "tenant_id" of type x.TenantContextKey
TenantIDKey == [type |-> "x.TenantContextKey", name |-> "tenant_id"]
\* config.TenantContextKey("tenant_id"): the key GetProvider looks up, of
\* the type TenantContextKey that package config declares for itself
ProviderKey == [type |-> "config.TenantContextKey", name |-> "tenant_id"]

\* the values a context holds are interface values: a dynamic type and the
\* value itself, written as its characters
StringValue(s) == [type |-> "string", val |-> s]
IntValue == [type |-> "int", val |-> <<"4", "2">>]
Nil == [type |-> "nil", val |-> << >>]

\* context.WithValue, ctx.Value: a key matches when type and value are equal
WithValue(c, k, v) == MapPut(c, k, v)
Value(c, k) == IF MapHas(c, k) THEN c[k] ELSE Nil

\* a request with header value h arrives
InitReq ==
  /\ InitManager
  /\ hdr \in Headers
  /\ ctx = EmptyMap
  /\ rstage = "start"
  /\ passed = << >>
  /\ got = << >>

\* TenantMiddleware: extract the tenant ID and attach it to the context
TenantMiddleware ==
  /\ rstage = "start"
  /\ ctx' = WithValue(ctx, TenantIDKey, StringValue(extractTenantID(hdr)))
  /\ rstage' = "mw"
  /\ UNCHANGED <<mvars, hdr, passed, got>>

\* the tenant ID TenantAwareConfig.GetProvider reads from the context
ProviderTenant(c) ==
  LET value == Value(c, ProviderKey) IN
    IF value # Nil /\ value.type = "string" THEN value.val ELSE DefaultTenantChars

\* TenantAwareConfig.GetProvider(ctx), with or without the middleware before
\* it: tac.tenantManager.GetTenantConfig(ctx, tenantID)
GetProvider ==
  /\ rstage \in {"start", "mw"}
  /\ passed' = ProviderTenant(ctx)
  /\ rstage' = "gp"
  /\ UNCHANGED <<mvars, hdr, ctx, got>>

NextReq == TenantMiddleware \/ GetProvider

SpecReq == InitReq /\ [][NextReq]_vars

(* ------------------ SetTenantID and GetTenantID ----------------------- *)
\* SetTenantID(ctx, tenantID)
SetTenantID(c, tenantID) == WithValue(c, TenantIDKey, StringValue(tenantID))

\* variant of GetTenantID that looks the identifier up under the key of
\* package config
GetTenantIDOtherKey(c) ==
  LET value == Value(c, ProviderKey) IN
    IF value.type = "string" THEN value.val ELSE DefaultTenantChars

\* GetTenantID(ctx): ctx.Value(TenantIDKey).(string), or DefaultTenantID
GetTenantID(c) ==
  LET value == Value(c, TenantIDKey) IN
    IF value.type = "string" THEN value.val ELSE DefaultTenantChars

\* a request arrives whose context holds nothing under TenantIDKey, or a
\* value that is not a string
InitCtx ==
  /\ InitManager
  /\ hdr \in Headers
  /\ ctx \in {EmptyMap, WithValue(EmptyMap, TenantIDKey, IntValue)}
  /\ rstage = "start"
  /\ passed = << >>
  /\ got = << >>

\* a test or handler attaches the header's value as it is with SetTenantID
CallSetTenantID ==
  /\ rstage = "start"
  /\ ctx' = SetTenantID(ctx, hdr)
  /\ rstage' = "set"
  /\ UNCHANGED <<mvars, hdr, passed, got>>

\* a handler reads the tenant with GetTenantID; rstage keeps what came before
CallGetTenantID ==
  /\ rstage \in {"start", "mw", "set"}
  /\ got' = GetTenantID(ctx)
  /\ rstage' = "gid:" \o rstage
  /\ UNCHANGED <<mvars, hdr, ctx, passed>>

NextCtx == TenantMiddleware \/ CallSetTenantID \/ CallGetTenantID

SpecCtx == InitCtx /\ [][NextCtx]_vars

(* ============================ properties ============================== *)
\* every goroutine other than p is outside the manager
Quiet(p) == \A q \in Procs \ {p} : pc[q] \in {"idle", "free"}

\* the positions of loadTenantConfig and of the setupTenantWatcher it calls
LoadPcs == {"ld_lock", "ld_check", "ld_load", "sw_lock", "sw_body"}

\* C1: a GetTenantConfig call for a non-default tenant whose file loaded and
\* whose snapshot was stored goes on to start the watcher and return that
\* snapshot: with every other goroutine outside the manager, the call always
\* has a next step
C1_ResolveTerminates ==
  \A p \in Callers :
    (op[p] = "GetTenantConfig" /\ pc[p] = "sw_lock" /\ Quiet(p) /\ ~crashed)
      => ENABLED Step(p)

\* C1: the state the property is about: the load succeeded and the snapshot
\* is the tenant's cache entry, the watcher is about to be started
C1_Loaded ==
  \E p \in Callers :
    /\ op[p] = "GetTenantConfig" /\ pc[p] = "sw_lock" /\ Quiet(p)
    /\ MapHas(tenantConfigs, arg[p]) /\ tenantConfigs[arg[p]] = held[p]
    /\ held[p] # Base

\* C2: two callers inside the first-time load of the same tenant, with no
\* reload running: one of them can always take its next step, so that both
\* come to return, and at most one of them is past the second lookup
C2_ConcurrentResolveReturns ==
  \A p, q \in Callers :
    (/\ p # q /\ ~crashed
     /\ op[p] = "GetTenantConfig" /\ op[q] = "GetTenantConfig"
     /\ arg[p] = arg[q]
     /\ pc[p] \in LoadPcs /\ pc[q] \in LoadPcs
     /\ \A r \in Reloaders : pc[r] = "free")
      => /\ ENABLED Step(p) \/ ENABLED Step(q)
         /\ ~(pc[p] \in {"ld_load", "sw_lock", "sw_body"}
              /\ pc[q] \in {"ld_load", "sw_lock", "sw_body"})

\* C2: two callers are inside the first-time load of the same tenant, one
\* having stored the snapshot, the other waiting for the mutex
C2_TwoFirstTimeCallers ==
  \E p, q \in Callers :
    /\ p # q /\ op[p] = "GetTenantConfig" /\ op[q] = "GetTenantConfig"
    /\ arg[p] = arg[q] /\ pc[p] = "sw_lock" /\ pc[q] = "ld_lock"
    /\ \A r \in Reloaders : pc[r] = "free"

ContainsDotDot(s) == \E i \in 1..(Len(s) - 1) : s[i] = "." /\ s[i + 1] = "."
ContainsSep(s) == \E i \in 1..Len(s) : s[i] \in {"/", "\\"}

\* C3: for a header value containing ".." or a path separator, the tenant
\* identifier the middleware extracted contains neither ".." nor "/" nor "\"
C3_SanitizedOutput ==
  (rstage = "mw" /\ (ContainsDotDot(hdr) \/ ContainsSep(hdr)))
    => (~ContainsDotDot(ctx[TenantIDKey].val) /\ ~ContainsSep(ctx[TenantIDKey].val))

\* C3: the middleware has extracted an identifier from a header with a
\* path separator
C3_SeparatorSeen == rstage = "mw" /\ ContainsSep(hdr)

\* C4: the identifier GetProvider passes to GetTenantConfig is the one the
\* middleware attached to the request context
C4_ProviderSeesMiddlewareTenant ==
  (rstage = "gp" /\ MapHas(ctx, TenantIDKey)) => passed = ctx[TenantIDKey].val

\* C4: GetProvider ran on a context to which the middleware attached a
\* non-default tenant
C4_NonDefaultAttached ==
  /\ rstage = "gp" /\ MapHas(ctx, TenantIDKey)
  /\ ctx[TenantIDKey].val # DefaultTenantChars

WatcherStep ==
  \/ \E t \in NonDefault, r \in Reloaders, err \in BOOLEAN :
       WatcherCallback(t, r, err, TRUE)
  \/ \E r \in Reloaders : PlLoad(r) \/ PlLock(r) \/ PlStore(r)

C8_DefaultNeverCached ==
  /\ DefaultTenantID \notin DOMAIN tenantConfigs
  /\ \A p \in Callers :
       (op[p] = "GetTenantConfig" /\ arg[p] = DefaultTenantID /\ pc[p] = "idle")
         => ret[p] = Base

\* C8: the default tenant was resolved while another tenant is cached
C8_DefaultResolved ==
  \E p \in Callers :
    /\ op[p] = "GetTenantConfig" /\ arg[p] = DefaultTenantID /\ pc[p] = "idle"
    /\ ret[p] = Base
    /\ tenantConfigs # EmptyMap

\* no file of tenant t exists
NoFile(t) == file[t].st = "missing"
\* no file of tenant t has ever existed
NeverHadFile(t) == file[t] = [st |-> "missing", ver |-> 0]

\* the results a tenant without file t must have: calls that returned gave the
\* base snapshot, t is no key of the cache, no statistics list t
FallsBack(t) ==
  /\ t \notin DOMAIN tenantConfigs
  /\ \A p \in Callers :
       /\ (op[p] = "GetTenantConfig" /\ arg[p] = t /\ pc[p] = "idle")
            => ret[p] = Base
       /\ (op[p] = "GetTenantConfigStats" /\ pc[p] = "idle")
            => t \notin ret[p].loaded_tenant_ids

C10_RetryReturns ==
  \A p \in Callers :
    (/\ mark[p] = "failed" /\ op[p] = "GetTenantConfig"
     /\ pc[p] = "sw_lock" /\ Quiet(p) /\ ~crashed)
      => ENABLED Step(p)

\* C10: the retry after a failed load has loaded and stored the snapshot
C10_RetryLoaded ==
  \E p \in Callers :
    /\ mark[p] = "failed" /\ op[p] = "GetTenantConfig" /\ pc[p] = "sw_lock"
    /\ MapHas(tenantConfigs, arg[p]) /\ Quiet(p)

\* header value h is empty or consists of whitespace only
Blank(h) == \A i \in 1..Len(h) : h[i] \in Whitespace

\* positions a..b of s are a maximal run of dots within positions i..j
DotRun(s, i, j, a, b) ==
  /\ i <= a /\ a <= b /\ b <= j
  /\ \A x \in a..b : s[x] = "."
  /\ (a = i \/ s[a - 1] # ".")
  /\ (b = j \/ s[b + 1] # ".")

\* between its first and last non-whitespace character, h holds nothing but
\* path separators and runs of an even number of dots: removing "..", "/"
\* and "\" leaves nothing
StripsToNothing(h) ==
  \E i, j \in 1..Len(h) :
    /\ i <= j
    /\ h[i] \notin Whitespace /\ h[j] \notin Whitespace
    /\ \A x \in 1..Len(h) : (x < i \/ x > j) => h[x] \in Whitespace
    /\ \A x \in i..j : h[x] \in {".", "/", "\\"}
    /\ \A a, b \in i..j : DotRun(h, i, j, a, b) => (b - a + 1) % 2 = 0

\* C11: for a header value that is empty, whitespace only, or left empty by
\* the removal of "..", "/" and "\", the extracted identifier is "default"
C11_EmptyIsDefault ==
  (rstage = "mw" /\ (Blank(hdr) \/ StripsToNothing(hdr)))
    => ctx[TenantIDKey].val = DefaultTenantChars

\* C11: the middleware ran on a header that is not blank and is stripped to
\* nothing
C11_StrippedToNothing ==
  rstage = "mw" /\ ~Blank(hdr) /\ StripsToNothing(hdr) /\ ContainsDotDot(hdr)

\* tenant u's entry, registration and watchers are the same before and after
SameFor(u) ==
  /\ (u \in DOMAIN tenantConfigs) = (u \in DOMAIN tenantConfigs')
  /\ u \in DOMAIN tenantConfigs => tenantConfigs'[u] = tenantConfigs[u]
  /\ (u \in watchers) = (u \in watchers')
  /\ live'[u] = live[u]

\* what InvalidateTenantConfig(t) does to the maps: t's entry and t's
\* registration are gone, nothing changes when both were absent, and no
\* other tenant is touched
InvalidateMaps(t) ==
  /\ t \notin DOMAIN tenantConfigs' /\ t \notin watchers'
  /\ (t \notin DOMAIN tenantConfigs /\ t \notin watchers)
       => UNCHANGED <<tenantConfigs, watchers>>
  /\ \A u \in Tenants \ {t} : SameFor(u)

ShutdownMaps == watchers' = {} /\ tenantConfigs' = tenantConfigs

MapReadPcs == {"gt_check", "st_body"}

AllIdle ==
  /\ \A p \in Callers : pc[p] = "idle"
  /\ \A r \in Reloaders : pc[r] = "free"

\* no caller's latest call was a setupTenantWatcher for t that failed, or
\* the GetTenantConfig(t) following one
NoSetupFailed(t) ==
  \A p \in Callers : ~(mark[p] \in {"swfail", "rearm"} /\ arg[p] = t)

OneLevelBelow(path) ==
  /\ Len(path) = Len(configDirectory) + 2
  /\ SubSeq(path, 1, Len(configDirectory)) = configDirectory
  /\ path[Len(path)] = "kratos.yaml"

PasswdHeader ==
  <<".", ".", "/", ".", ".", "/", ".", ".", "/", "e", "t", "c", "/",
    "p", "a", "s", "s", "w", "d">>

\* C16: for every header value the path built from the extracted identifier
\* is {configDirectory}/{tenantID}/kratos.yaml, one directory below
\* configDirectory, and "../../../etc/passwd" is sanitized to "etcpasswd"
C16_SinglePathSegment ==
  /\ rstage = "mw" => OneLevelBelow(getTenantConfigPath(ctx[TenantIDKey].val))
  /\ Str(extractTenantID(PasswdHeader)) = "etcpasswd"

\* C16: the middleware sanitized a header with ".." and a separator in it
C16_TraversalHeader ==
  rstage = "mw" /\ ContainsDotDot(hdr) /\ ContainsSep(hdr)

\* the notification of the latest change of t's file has been handled, and
\* the file as it is does not load: the reload for that change fails
ReloadFails(t) ==
  /\ file[t].ver > 0 /\ handled[t] = file[t].ver
  /\ ~CanLoad(t)

CallbackRuns(t) == \E r \in Reloaders : WatcherCallback(t, r, FALSE, TRUE)

C20_TenantIDRoundTrip ==
  /\ rstage = "gid:set" => got = hdr
  /\ rstage = "gid:mw" => got = extractTenantID(hdr)
  /\ rstage = "gid:start" => got = DefaultTenantChars

\* C20: GetTenantID returned the non-default identifier the middleware had
\* attached, which differs from the header as sent
C20_ReadBack ==
  /\ rstage = "gid:mw" /\ got # DefaultTenantChars
  /\ got = ctx[TenantIDKey].val /\ hdr # got

====
